---- MODULE Spec2Model ----
(***************************************************************************)
(* Jack Poker Manager: the round engine (score formula, table draw,        *)
(* financial settlement, round session) as a state machine.                *)
(*                                                                         *)
(* Every monetary value and every point value of the program is a          *)
(* JavaScript number, an IEEE-754 binary64.  The model keeps that type:    *)
(* a number is a record [s, m, e] of value (-1)^s * m * 2^e whose          *)
(* significand m is an arbitrary-precision natural (a little-endian        *)
(* sequence of 15-bit limbs, so that no intermediate exceeds 2^31), and    *)
(* every arithmetic operation rounds its exact result to 53 bits, ties to  *)
(* even, as the hardware does.  Values stay far from the overflow and      *)
(* subnormal ranges, which are not modelled.                               *)
(***************************************************************************)
EXTENDS Integers, Sequences, FiniteSets, TLC

(***************************************************************************)
(* Arbitrary-precision naturals                                            *)
(***************************************************************************)
LimbBase == 32768
LimbBits == 15
MantBits == 53

RECURSIVE Pow2(_)
Pow2(k) == IF k = 0 THEN 1 ELSE 2 * Pow2(k - 1)

Limb(a, i) == IF i <= Len(a) THEN a[i] ELSE 0

RECURSIVE BTrim(_)
BTrim(a) ==
  IF a = <<>> THEN a
  ELSE IF a[Len(a)] = 0 THEN BTrim(SubSeq(a, 1, Len(a) - 1)) ELSE a

RECURSIVE NatToB(_)
NatToB(n) == IF n = 0 THEN <<>> ELSE <<n % LimbBase>> \o NatToB(n \div LimbBase)

RECURSIVE BAddC(_, _, _, _)
BAddC(a, b, i, c) ==
  IF i > Len(a) /\ i > Len(b)
  THEN (IF c = 0 THEN <<>> ELSE <<c>>)
  ELSE LET x == Limb(a, i) + Limb(b, i) + c
       IN  <<x % LimbBase>> \o BAddC(a, b, i + 1, x \div LimbBase)

BAdd(a, b) == BAddC(a, b, 1, 0)

RECURSIVE BSubC(_, _, _, _)
BSubC(a, b, i, c) ==
  IF i > Len(a) THEN <<>>
  ELSE LET x == Limb(a, i) - Limb(b, i) - c
       IN  <<(x + LimbBase) % LimbBase>> \o BSubC(a, b, i + 1, IF x < 0 THEN 1 ELSE 0)

\* a - b for a >= b
BSub(a, b) == BTrim(BSubC(a, b, 1, 0))

RECURSIVE BCmpFrom(_, _, _)
BCmpFrom(a, b, i) ==
  IF i = 0 THEN 0
  ELSE IF a[i] < b[i] THEN -1
  ELSE IF a[i] > b[i] THEN 1
  ELSE BCmpFrom(a, b, i - 1)

\* -1, 0, 1 as a < b, a = b, a > b (both without leading zero limbs)
BCmp(a, b) ==
  IF Len(a) < Len(b) THEN -1
  ELSE IF Len(a) > Len(b) THEN 1
  ELSE BCmpFrom(a, b, Len(a))

RECURSIVE BMulC(_, _, _, _)
BMulC(a, d, i, c) ==
  IF i > Len(a)
  THEN (IF c = 0 THEN <<>> ELSE <<c>>)
  ELSE LET x == a[i] * d + c
       IN  <<x % LimbBase>> \o BMulC(a, d, i + 1, x \div LimbBase)

\* a * d for a limb d
BMulSmall(a, d) == IF d = 0 THEN <<>> ELSE BMulC(a, d, 1, 0)

RECURSIVE BMulAcc(_, _, _)
BMulAcc(a, b, j) ==
  IF j > Len(b) THEN <<>>
  ELSE BAdd(BMulSmall(a, b[j]), <<0>> \o BMulAcc(a, b, j + 1))

BMul(a, b) == BTrim(BMulAcc(a, b, 1))

\* a * 2^k
BShl(a, k) ==
  IF a = <<>> THEN <<>>
  ELSE [i \in 1..(k \div LimbBits) |-> 0] \o BMulSmall(a, Pow2(k % LimbBits))

RECURSIVE BDivC(_, _, _, _)
BDivC(a, d, i, r) ==
  IF i = 0 THEN <<>>
  ELSE LET x == r * LimbBase + a[i]
       IN  BDivC(a, d, i - 1, x % d) \o <<x \div d>>

\* floor(a / d) for a limb d > 0
BDivSmall(a, d) == BTrim(BDivC(a, d, Len(a), 0))

\* floor(a / 2^k)
BShr(a, k) ==
  IF k \div LimbBits >= Len(a) THEN <<>>
  ELSE BDivSmall(SubSeq(a, (k \div LimbBits) + 1, Len(a)), Pow2(k % LimbBits))

RECURSIVE NatBits(_)
NatBits(n) == IF n = 0 THEN 0 ELSE 1 + NatBits(n \div 2)

BitLen(a) == IF a = <<>> THEN 0 ELSE LimbBits * (Len(a) - 1) + NatBits(a[Len(a)])

BOdd(a) == a # <<>> /\ a[1] % 2 = 1

(***************************************************************************)
(* Dyadic rationals (exact) and binary64 (rounded)                         *)
(***************************************************************************)
Dy(s, m, e) == [s |-> s, m |-> m, e |-> e]

IsZero(x) == x.m = <<>>
Neg(x) == Dy(1 - x.s, x.m, x.e)
Abs(x) == Dy(0, x.m, x.e)

\* The larger significand keeps its sign; c is BCmp(mx, my)
DyDiff(sx, sy, mx, my, e, c) ==
  IF c = 0 THEN Dy(0, <<>>, 0)
  ELSE IF c > 0 THEN Dy(sx, BSub(mx, my), e)
  ELSE Dy(sy, BSub(my, mx), e)

\* (-1)^sx * mx * 2^e + (-1)^sy * my * 2^e
DyAddAligned(sx, sy, mx, my, e) ==
  IF sx = sy THEN Dy(sx, BAdd(mx, my), e)
  ELSE DyDiff(sx, sy, mx, my, e, BCmp(mx, my))

DyAddAt(x, y, e) == DyAddAligned(x.s, y.s, BShl(x.m, x.e - e), BShl(y.m, y.e - e), e)

\* The exact sum of two dyadic rationals.
DyAdd(x, y) ==
  IF IsZero(x) /\ IsZero(y) THEN Dy(IF x.s = 1 /\ y.s = 1 THEN 1 ELSE 0, <<>>, 0)
  ELSE IF IsZero(x) THEN y
  ELSE IF IsZero(y) THEN x
  ELSE DyAddAt(x, y, IF x.e < y.e THEN x.e ELSE y.e)

DySub(x, y) == DyAdd(x, Neg(y))

DyMul(x, y) ==
  IF IsZero(x) \/ IsZero(y) THEN Dy((x.s + y.s) % 2, <<>>, 0)
  ELSE Dy((x.s + y.s) % 2, BMul(x.m, y.m), x.e + y.e)

\* -1, 0, 1 as x < y, x = y, x > y (exact; -0 = +0)
SignOf(d) == IF IsZero(d) THEN 0 ELSE IF d.s = 1 THEN -1 ELSE 1

DyCmp(x, y) == SignOf(DySub(x, y))

DyEq(x, y) == DyCmp(x, y) = 0
DyLe(x, y) == DyCmp(x, y) <= 0
DyLt(x, y) == DyCmp(x, y) < 0

RECURSIVE ZeroLimbs(_, _)
ZeroLimbs(a, i) == IF a[i] # 0 THEN 0 ELSE 1 + ZeroLimbs(a, i + 1)

RECURSIVE ZeroBits(_)
ZeroBits(n) == IF n % 2 = 1 THEN 0 ELSE 1 + ZeroBits(n \div 2)

\* The number of trailing zero bits of a > 0
TrailingZerosFrom(a, z) == LimbBits * z + ZeroBits(a[z + 1])

TrailingZeros(a) == TrailingZerosFrom(a, ZeroLimbs(a, 1))

\* The one representation of a value: an odd significand, or zero.
CanonBy(d, tz) == IF tz = 0 THEN d ELSE Dy(d.s, BShr(d.m, tz), d.e + tz)

Canon(d) == IF IsZero(d) THEN Dy(d.s, <<>>, 0) ELSE CanonBy(d, TrailingZeros(d.m))

\* q is the significand cut to 53 bits, c compares what was cut off with half
\* a unit of q's last place
FlTie(d, k, q, c) ==
  Canon(Dy(d.s, IF c > 0 \/ (c = 0 /\ BOdd(q)) THEN BAdd(q, <<1>>) ELSE q, d.e + k))

FlCut(d, k, q) == FlTie(d, k, q, BCmp(BSub(d.m, BShl(q, k)), BShl(<<1>>, k - 1)))

FlBits(d, L) ==
  IF L <= MantBits THEN Canon(d) ELSE FlCut(d, L - MantBits, BShr(d.m, L - MantBits))

\* Round to the nearest binary64 (a significand of at most 53 bits), ties to
\* even.
Fl(d) ==
  IF IsZero(d) THEN Dy(d.s, <<>>, 0) ELSE FlBits(d, BitLen(d.m))

FromInt(n) == Fl(Dy(IF n < 0 THEN 1 ELSE 0, NatToB(IF n < 0 THEN -n ELSE n), 0))

FAdd(x, y) == Fl(DyAdd(x, y))
FSub(x, y) == Fl(DySub(x, y))
FMul(x, y) == Fl(DyMul(x, y))

\* n is the shifted significand and q = floor(n / d)
FDivSticky(x, d, sh, n, q) ==
  Fl(Dy(x.s,
        BAdd(BMulSmall(q, 2), IF BSub(n, BMulSmall(q, d)) = <<>> THEN <<>> ELSE <<1>>),
        x.e - sh - 1))

FDivQuot(x, d, sh, n) == FDivSticky(x, d, sh, n, BDivSmall(n, d))

FDivShift(x, d, sh) == FDivQuot(x, d, sh, BShl(x.m, sh))

FDivBits(x, d, L) == FDivShift(x, d, IF L < 71 THEN 71 - L ELSE 0)

\* x / d for an integer-valued divisor 0 < d < 2^15.  Every division of the
\* program has one: val / 10, bbqCost / sessions.length, n / p, and the decimal
\* literals.  The quotient is cut after at least 55 bits, a sticky bit records
\* a remainder, and the result is rounded.
FDivInt(x, d) == IF IsZero(x) THEN x ELSE FDivBits(x, d, BitLen(x.m))

\* A decimal literal num/den of the source text: the nearest binary64.
Lit(num, den) == FDivInt(FromInt(num), den)

\* Math.round: the integer nearest to x, ties toward +Infinity (floor(x + 0.5));
\* -0.5 <= x < 0 gives -0.
MathRoundBy(x, k, half) ==
  IF x.s = 0
  THEN Fl(Dy(0, BShr(BAdd(x.m, half), k), 0))
  ELSE IF BCmp(x.m, half) <= 0 THEN Dy(1, <<>>, 0)
  ELSE Fl(Dy(1, BShr(BAdd(BSub(x.m, half), BSub(BShl(<<1>>, k), <<1>>)), k), 0))

MathRound(x) ==
  IF IsZero(x) \/ x.e >= 0 THEN x ELSE MathRoundBy(x, -x.e, BShl(<<1>>, (-x.e) - 1))

(***************************************************************************)
(* Types (types.ts) and the settlement engine (services/pokerLogic.ts)     *)
(***************************************************************************)
\* PlayerSession.rank is null or a positive position; no operation of the
\* program ever stores 0, so 0 stands for null.
Null == 0

Zero == FromInt(0)
Ten  == FromInt(10)

\* (s.buyIns * config.buyInCost) + (s.rebuys * config.rebuyCost) + (s.addOns * config.addOnCost)
totalCost(s, cfg) ==
  FAdd(FAdd(FMul(FromInt(s.buyIns), cfg.buyInCost),
            FMul(FromInt(s.rebuys), cfg.rebuyCost)),
       FMul(FromInt(s.addOns), cfg.addOnCost))

\* sessions.forEach(s => { grossTotal += ...; grossTotal += ...; grossTotal += ...; })
RECURSIVE grossTotalOf(_, _, _)
grossTotalOf(sessions, cfg, i) ==
  IF i = 0 THEN Zero
  ELSE LET s == sessions[i]
       IN  FAdd(FAdd(FAdd(grossTotalOf(sessions, cfg, i - 1),
                          FMul(FromInt(s.buyIns), cfg.buyInCost)),
                     FMul(FromInt(s.rebuys), cfg.rebuyCost)),
                FMul(FromInt(s.addOns), cfg.addOnCost))

\* Mutant: a tax of 10%
AdminRate_tenth == Lit(10, 100)

AdminRate   == Lit(15, 100)
PotRate     == Lit(5, 100)
FirstShare  == Lit(50, 100)
SecondShare == Lit(30, 100)
ThirdShare  == Lit(20, 100)

\* Round to the nearest integer, ties to even (what Python's round does).
RoundHalfEven(x) ==
  IF IsZero(x) \/ x.e >= 0 THEN x
  ELSE Fl(FlCut(x, -x.e, BShr(x.m, -x.e)))

\* Mutant: ties to even, 125 -> 120
smartRound_halfEven(val) == FMul(RoundHalfEven(FDivInt(val, 10)), Ten)

\* Mutant: always up to the next multiple of 10, (Math.floor(val / 10) + 1) * 10,
\* for val >= 0
MathFloor(x) == IF IsZero(x) \/ x.e >= 0 THEN x ELSE Fl(Dy(x.s, BShr(x.m, -x.e), 0))

smartRound_nextTen(val) == FMul(FAdd(MathFloor(FDivInt(val, 10)), FromInt(1)), Ten)

\* const smartRound = (val) => Math.round(val / 10) * 10
smartRound(val) == FMul(MathRound(FDivInt(val, 10)), Ten)

\* Mutant: the shares of the second and the third place are exchanged
finalPrizesOf_thirdOverSecond(netPrizePool) ==
  [first  |-> smartRound(FMul(netPrizePool, FirstShare)),
   second |-> smartRound(FMul(netPrizePool, ThirdShare)),
   third  |-> smartRound(FMul(netPrizePool, SecondShare))]

\* rawPrizes, then finalPrizes
finalPrizesOf(netPrizePool) ==
  [first  |-> smartRound(FMul(netPrizePool, FirstShare)),
   second |-> smartRound(FMul(netPrizePool, SecondShare)),
   third  |-> smartRound(FMul(netPrizePool, ThirdShare))]

\* Mutant: the main-event pot is not taken out of the prize pool
netPrizePoolOf_noPot(grossTotal, adminTax, mainEventPot) == FSub(grossTotal, adminTax)

\* grossTotal - adminTax - mainEventPot
netPrizePoolOf(grossTotal, adminTax, mainEventPot) ==
  FSub(FSub(grossTotal, adminTax), mainEventPot)

\* roundingAdjustment = netPrizePool - totalPaidOut
roundingAdjustmentOf(netPrizePool, finalPrizes) ==
  FSub(netPrizePool, FAdd(FAdd(finalPrizes.first, finalPrizes.second), finalPrizes.third))

\* finalAdminTax = adminTax + roundingAdjustment
finalAdminTaxOf(adminTax, roundingAdjustment) == FAdd(adminTax, roundingAdjustment)

\* activePlayerCount > 0 ? config.bbqCost / activePlayerCount : 0
bbqPerPersonOf(sessions, cfg) ==
  IF Len(sessions) > 0 THEN FDivInt(cfg.bbqCost, Len(sessions)) ELSE Zero

\* Mutant: every rank from 3 on is paid the third prize
prizeOf_fromThird(rank, finalPrizes) ==
  IF rank >= 3 THEN finalPrizes.third
  ELSE IF rank = 2 THEN finalPrizes.second
  ELSE IF rank = 1 THEN finalPrizes.first
  ELSE Zero

\* let prize = 0; if (s.rank === 1) ...; if (s.rank === 2) ...; if (s.rank === 3) ...
prizeOf(rank, finalPrizes) ==
  IF rank = 3 THEN finalPrizes.third
  ELSE IF rank = 2 THEN finalPrizes.second
  ELSE IF rank = 1 THEN finalPrizes.first
  ELSE Zero

\* Mutant: the shared cost is not charged
netBalanceOf_noShare(prize, cost, bbqPerPerson) == FSub(prize, cost)

\* netBalance = prize - totalCost - bbqPerPerson
netBalanceOf(prize, cost, bbqPerPerson) == FSub(FSub(prize, cost), bbqPerPerson)

\* The entry of sessions.map for one session, given its totalCost and prize
balanceOf(s, cost, prize, bbqPerPerson) ==
  [playerId      |-> s.playerId,
   totalPaid     |-> cost,
   prizeReceived |-> prize,
   bbqShare      |-> bbqPerPerson,
   netBalance    |-> netBalanceOf(prize, cost, bbqPerPerson)]

playerBalance(s, cfg, finalPrizes, bbqPerPerson) ==
  balanceOf(s, totalCost(s, cfg), prizeOf(s.rank, finalPrizes), bbqPerPerson)

\* The steps of calculateFinancials, each given the constants declared before it.
\* 5, 6 and the return value:
settleWallets(sessions, cfg, grossTotal, adminTax, mainEventPot, netPrizePool, finalPrizes, roundingAdjustment, bbqPerPerson) ==
  [grossTotal         |-> grossTotal,
   adminTax           |-> finalAdminTaxOf(adminTax, roundingAdjustment),
   mainEventPot       |-> mainEventPot,
   netPrizePool       |-> netPrizePool,
   prizes             |-> finalPrizes,
   roundingAdjustment |-> roundingAdjustment,
   playerBalances     |-> [i \in 1..Len(sessions) |->
                             playerBalance(sessions[i], cfg, finalPrizes, bbqPerPerson)]]

\* 5. roundingAdjustment
settleDifference(sessions, cfg, grossTotal, adminTax, mainEventPot, netPrizePool, finalPrizes) ==
  settleWallets(sessions, cfg, grossTotal, adminTax, mainEventPot, netPrizePool,
                finalPrizes, roundingAdjustmentOf(netPrizePool, finalPrizes),
                bbqPerPersonOf(sessions, cfg))

\* 3, 4. rawPrizes, finalPrizes
settlePrizes(sessions, cfg, grossTotal, adminTax, mainEventPot, netPrizePool) ==
  settleDifference(sessions, cfg, grossTotal, adminTax, mainEventPot, netPrizePool,
                   finalPrizesOf(netPrizePool))

\* 2. adminTax, mainEventPot, netPrizePool
settlePool(sessions, cfg, grossTotal, adminTax, mainEventPot) ==
  settlePrizes(sessions, cfg, grossTotal, adminTax, mainEventPot,
               netPrizePoolOf(grossTotal, adminTax, mainEventPot))

settleDeductions(sessions, cfg, grossTotal) ==
  settlePool(sessions, cfg, grossTotal, FMul(grossTotal, AdminRate),
             FMul(grossTotal, PotRate))

\* 1. grossTotal
calculateFinancials(sessions, cfg) ==
  settleDeductions(sessions, cfg, grossTotalOf(sessions, cfg, Len(sessions)))

\* Mutant: integer division
calculatePoints_trunc(n, p) ==
  IF p <= 0 THEN Zero ELSE FromInt((n + 1) - p + (n \div p))

\* Mutant: n - p + n / p
calculatePoints_noPlusOne(n, p) ==
  IF p <= 0 THEN Zero
  ELSE FAdd(FSub(FromInt(n), FromInt(p)), FDivInt(FromInt(n), p))

\* Mutant: the position is added
calculatePoints_plusPosition(n, p) ==
  IF p <= 0 THEN Zero
  ELSE FAdd(FAdd(FAdd(FromInt(n), FromInt(1)), FromInt(p)), FDivInt(FromInt(n), p))

\* export const calculatePoints = (n, p) => p <= 0 ? 0 : (n + 1) - p + (n / p)
calculatePoints(n, p) ==
  IF p <= 0 THEN Zero
  ELSE FAdd(FSub(FAdd(FromInt(n), FromInt(1)), FromInt(p)), FDivInt(FromInt(n), p))

(***************************************************************************)
(* Table draw (services/pokerLogic.ts)                                     *)
(***************************************************************************)
Min(a, b) == IF a < b THEN a ELSE b
Max(a, b) == IF a > b THEN a ELSE b

\* Mutant: the second assignment of the swap is lost
Swap_half(array, i, j) == [array EXCEPT ![i] = array[j]]

Swap(array, i, j) == [array EXCEPT ![i] = array[j], ![j] = array[i]]

\* Fisher-Yates.  rnd[c] is Math.floor(Math.random() * c), a value of 0..c-1,
\* drawn while currentIndex = c; indices of the source are 0-based.
RECURSIVE shuffleFrom(_, _, _)
shuffleFrom(array, currentIndex, rnd) ==
  IF currentIndex = 0 THEN array
  ELSE shuffleFrom(Swap(array, (currentIndex - 1) + 1, rnd[currentIndex] + 1),
                   currentIndex - 1, rnd)

\* Mutant: the loop starts one element short of the end
shuffle_short(array, rnd) == shuffleFrom(array, Max(Len(array) - 1, 0), rnd)

shuffle(array, rnd) == shuffleFrom(array, Len(array), rnd)

\* Every outcome of the random draws of one shuffle of n elements
RandomDraws(n) == { rnd \in [1..n -> 0..(Max(n, 1) - 1)] : \A c \in 1..n : rnd[c] < c }

SelectLen(ts, k) == SelectSeq(ts, LAMBDA t : Len(t.players) = k)

\* tables.sort((a, b) => a.players.length - b.players.length): Array.prototype.sort
\* is stable, so tables of equal size keep the order they have in the array.
RECURSIVE sortBySizeFrom(_, _, _)
sortBySizeFrom(ts, k, maxLen) ==
  IF k > maxLen THEN <<>>
  ELSE SelectLen(ts, k) \o sortBySizeFrom(ts, k + 1, maxLen)

\* Mutant: tables of equal size are taken in the order of their ids
sortBySize_byId(ts, maxLen) == sortBySizeFrom([i \in 1..Len(ts) |-> CHOOSE t \in {ts[j] : j \in 1..Len(ts)} : t.id = i], 0, maxLen)

\* Mutant: the tables are not sorted before the push
sortBySize_asIs(ts, maxLen) == ts

sortBySize(ts, maxLen) == sortBySizeFrom(ts, 0, maxLen)

\* Mutant: the tables are returned in the order the seating left them in
sortById_asIs(ts) == ts

\* tables.sort((a, b) => a.id - b.id): the ids are 1..K
sortById(ts) == [i \in 1..Len(ts) |-> CHOOSE t \in {ts[j] : j \in 1..Len(ts)} : t.id = i]

\* Mutant: every dealer is seated at the first table
seatDealers_firstTable(ts, dealers, index) == [ts EXCEPT ![1].players = [k \in 1..Len(dealers) |-> dealers[k].id]]

\* dealers.forEach((dealer, index) => tables[index % safeNumTables].players.push(dealer.id))
RECURSIVE seatDealers(_, _, _)
seatDealers(ts, dealers, index) ==
  IF index >= Len(dealers) THEN ts
  ELSE LET tableIndex == index % Len(ts)
       IN  seatDealers([ts EXCEPT ![tableIndex + 1].players = Append(@, dealers[index + 1].id)],
                       dealers, index + 1)

\* shuffledNonDealers.forEach(player => { tables.sort(by size); tables[0].players.push(player.id) })
RECURSIVE seatOthers(_, _, _, _)
seatOthers(ts, others, i, total) ==
  IF i > Len(others) THEN ts
  ELSE LET sorted == sortBySize(ts, total)
       IN  seatOthers([sorted EXCEPT ![1].players = Append(@, others[i].id)],
                      others, i + 1, total)

\* Mutant: no early return for an empty roster
drawTables_noEarlyReturn(ps, numberOfTables, rnd) ==
  [i \in 1..Max(1, Min(3, numberOfTables)) |->
     [id |-> i, players |-> [k \in 1..Len(ps) |-> ps[k].id]]]

drawTables(ps, numberOfTables, rnd) ==
  IF Len(ps) = 0 THEN <<>>
  ELSE LET dealers       == SelectSeq(ps, LAMBDA q : q.isDealer)
           nonDealers    == SelectSeq(ps, LAMBDA q : ~q.isDealer)
           safeNumTables == Max(1, Min(3, numberOfTables))
           empty         == [i \in 1..safeNumTables |-> [id |-> i, players |-> <<>>]]
           shuffled      == shuffle(nonDealers, rnd)
       IN  sortById(seatOthers(seatDealers(empty, dealers, 0), shuffled, 1, Len(ps)))

(***************************************************************************)
(* State                                                                   *)
(***************************************************************************)
VARIABLES
  args,          \* the arguments of a direct call of an exported function
  result,        \* <<>> before the call, <<its return value>> after
  activeTab,     \* App state (useState), by the names of the source
  players,
  checkedInIds,
  roundHistory,
  numTables,
  gameSessions,
  tables,
  config,
  gamePhase

appVars == <<activeTab, players, checkedInIds, roundHistory, numTables,
             gameSessions, tables, config, gamePhase>>
vars == <<args, result, appVars>>

Cfg(b, r, a, q) == [buyInCost |-> b, rebuyCost |-> r, addOnCost |-> a, bbqCost |-> q]

INITIAL_CONFIG == Cfg(FromInt(50), FromInt(50), FromInt(50), FromInt(300))

\* The App as mounted: no player, no round.
AppInit ==
  /\ activeTab = "setup"
  /\ players = <<>>
  /\ checkedInIds = {}
  /\ roundHistory = <<>>
  /\ numTables = 1
  /\ gameSessions = <<>>
  /\ tables = <<>>
  /\ config = INITIAL_CONFIG
  /\ gamePhase = "REBUYS_OPEN"

(***************************************************************************)
(* The App (its handlers, each under the condition that renders and        *)
(* enables the control that calls it)                                      *)
(***************************************************************************)
MaxPlayers == 2
MaxRebuys  == 1
MaxRounds  == 1

Tabs == {"setup", "game", "finance", "ranking", "specs"}

\* The unit costs the administrator types into the setup form
AppConfigs == { INITIAL_CONFIG, Cfg(FromInt(32), FromInt(3), FromInt(7), FromInt(100)) }

PlayerIds == { players[i].id : i \in 1..Len(players) }
SessionIds(sessions) == { sessions[i].playerId : i \in 1..Len(sessions) }
HasRound == Len(gameSessions) > 0

\* The disabled attribute of the navigation buttons
NavDisabled(tab) ==
  CASE tab = "setup" -> gamePhase # "REBUYS_OPEN" /\ activeTab # "setup" /\ HasRound
    [] tab \in {"game", "finance"} -> ~HasRound
    [] OTHER -> FALSE

setActiveTab(tab) ==
  /\ tab # activeTab
  /\ ~NavDisabled(tab)
  /\ activeTab' = tab
  /\ UNCHANGED <<players, checkedInIds, roundHistory, numTables, gameSessions,
                 tables, config, gamePhase>>

\* A non-blank name has been typed; the name itself is not modelled.
handleAddPlayer ==
  /\ activeTab = "setup"
  /\ Len(players) < MaxPlayers
  /\ LET newId == Len(players) + 1
     IN  /\ players' = Append(players, [id |-> newId, isDealer |-> FALSE])
         /\ checkedInIds' = checkedInIds \cup {newId}
  /\ UNCHANGED <<activeTab, roundHistory, numTables, gameSessions, tables, config, gamePhase>>

handleCheckInToggle(id) ==
  /\ activeTab = "setup"
  /\ id \in PlayerIds
  /\ checkedInIds' = IF id \in checkedInIds THEN checkedInIds \ {id}
                     ELSE checkedInIds \cup {id}
  /\ UNCHANGED <<activeTab, players, roundHistory, numTables, gameSessions, tables,
                 config, gamePhase>>

\* Mutant: a change of a dealer flag re-seats the round in progress
toggleDealer_reseat(id) ==
  /\ activeTab = "setup"
  /\ id \in PlayerIds
  /\ players' = [i \in 1..Len(players) |->
                   IF players[i].id = id
                   THEN [players[i] EXCEPT !.isDealer = ~players[i].isDealer]
                   ELSE players[i]]
  /\ tables' = IF HasRound
               THEN drawTables(SelectSeq(players', LAMBDA q : q.id \in checkedInIds), numTables,
                               [c \in 1..Len(players) |-> 0])
               ELSE tables
  /\ UNCHANGED <<activeTab, checkedInIds, roundHistory, numTables, gameSessions,
                 config, gamePhase>>

toggleDealer(id) ==
  /\ activeTab = "setup"
  /\ id \in PlayerIds
  /\ players' = [i \in 1..Len(players) |->
                   IF players[i].id = id
                   THEN [players[i] EXCEPT !.isDealer = ~players[i].isDealer]
                   ELSE players[i]]
  /\ UNCHANGED <<activeTab, checkedInIds, roundHistory, numTables, gameSessions, tables,
                 config, gamePhase>>

\* The round settings form takes no input while a round is in progress
\* (pointer-events-none).
setNumTables(n) ==
  /\ activeTab = "setup"
  /\ ~HasRound
  /\ n # numTables
  /\ numTables' = n
  /\ UNCHANGED <<activeTab, players, checkedInIds, roundHistory, gameSessions, tables,
                 config, gamePhase>>

setConfig(c) ==
  /\ activeTab = "setup"
  /\ ~HasRound
  /\ c # config
  /\ config' = c
  /\ UNCHANGED <<activeTab, players, checkedInIds, roundHistory, numTables, gameSessions,
                 tables, gamePhase>>

activePlayersOf_all(ps, ids) == ps

activePlayersOf(ps, ids) == SelectSeq(ps, LAMBDA q : q.id \in ids)

newSession(q) == [playerId |-> q.id, buyIns |-> 1, rebuys |-> 0, addOns |-> 0, rank |-> Null]

\* The body of the handler: it reads the checked-in players and has no
\* condition of its own.
startRoundHandler ==
  /\ LET activePlayers == activePlayersOf(players, checkedInIds)
         nonDealers    == SelectSeq(activePlayers, LAMBDA q : ~q.isDealer)
     IN  /\ \E rnd \in RandomDraws(Len(nonDealers)) :
               tables' = drawTables(activePlayers, numTables, rnd)
         /\ gameSessions' = [i \in 1..Len(activePlayers) |-> newSession(activePlayers[i])]
  /\ gamePhase' = "REBUYS_OPEN"
  /\ activeTab' = "game"
  /\ UNCHANGED <<players, checkedInIds, roundHistory, numTables, config>>

startDisabled_empty == Cardinality(checkedInIds) < 1

\* The disabled attribute of the start button
startDisabled == Cardinality(checkedInIds) < 2

\* The start button: on the setup tab, inside the grid that takes no pointer
\* events while a round exists.  The model starts a round only while the
\* history holds fewer than rounds records.
startRoundWithin(rounds) ==
  /\ activeTab = "setup"
  /\ ~HasRound
  /\ ~startDisabled
  /\ Len(roundHistory) < rounds
  /\ startRoundHandler

startRound == startRoundWithin(MaxRounds)

\* window.confirm answered yes (answered no, nothing happens)
resetRound ==
  /\ activeTab = "setup"
  /\ HasRound
  /\ gameSessions' = <<>>
  /\ tables' = <<>>
  /\ gamePhase' = "REBUYS_OPEN"
  /\ activeTab' = "setup"
  /\ UNCHANGED <<players, checkedInIds, roundHistory, numTables, config>>

\* const activePlayerCount = checkedInIds.size
activePlayerCount == Cardinality(checkedInIds)

\* Mutant: a session without a rank is scored as the last of the round
pointsOf_lastPlace(session, playerCount) ==
  calculatePoints(playerCount, IF session.rank # Null THEN session.rank ELSE playerCount)

\* session.rank ? calculatePoints(activePlayerCount, session.rank) : 0
pointsOf(session, playerCount) ==
  IF session.rank # Null THEN calculatePoints(playerCount, session.rank) ELSE Zero

\* The points column of the finance view, for the row of one player:
\* session && session.rank ? calculatePoints(activePlayerCount, session.rank) : 0
livePoints(playerId) ==
  LET found == SelectSeq(gameSessions, LAMBDA s : s.playerId = playerId)
  IN  IF Len(found) > 0 THEN pointsOf(found[1], activePlayerCount) ELSE Zero

\* The HistoricalRound that saveAndFinishRound builds.  The record is a function
\* of the sessions, the configuration and the number of checked-in players of
\* the moment of saving: roundHistory keeps these three with the id, and the
\* record's fields are computed from them where they are read.
savedPoints(saved, i) == pointsOf(saved.sessions[i], saved.activePlayerCount)

\* const balance = financials.playerBalances.find(b => b.playerId === session.playerId);
\* the balances are in the order of the sessions, whose playerIds are distinct
savedNetBalance(saved, i) ==
  calculateFinancials(saved.sessions, saved.config).playerBalances[i].netBalance

historyEntry(saved) ==
  [id            |-> saved.id,
   totalPot      |-> calculateFinancials(saved.sessions, saved.config).grossTotal,
   playerResults |->
     [i \in 1..Len(saved.sessions) |->
        [playerId   |-> saved.sessions[i].playerId,
         points     |-> savedPoints(saved, i),
         netBalance |-> savedNetBalance(saved, i),
         rank       |-> saved.sessions[i].rank]]]

\* window.confirm answered yes
saveAndFinishRound ==
  /\ activeTab = "finance"
  /\ roundHistory' = Append(roundHistory,
                            [id                |-> Len(roundHistory) + 1,
                             sessions          |-> gameSessions,
                             config            |-> config,
                             activePlayerCount |-> activePlayerCount])
  /\ gameSessions' = <<>>
  /\ tables' = <<>>
  /\ gamePhase' = "REBUYS_OPEN"
  /\ activeTab' = "ranking"
  /\ UNCHANGED <<players, checkedInIds, numTables, config>>

\* A field whose value is not a number (the playerId, a null rank) is left as
\* it is: typeof val === 'number'.
updateSession_noClamp(sessions, playerId, field, delta) ==
  [i \in 1..Len(sessions) |->
     IF sessions[i].playerId # playerId THEN sessions[i]
     ELSE [sessions[i] EXCEPT ![field] = @ + delta]]

updateSession_floorOnly(sessions, playerId, field, delta) ==
  [i \in 1..Len(sessions) |->
     IF sessions[i].playerId # playerId THEN sessions[i]
     ELSE [sessions[i] EXCEPT ![field] = Max(0, @ + delta)]]

updateSession(sessions, playerId, field, delta) ==
  [i \in 1..Len(sessions) |->
     IF sessions[i].playerId # playerId THEN sessions[i]
     ELSE IF field = "playerId" \/ (field = "rank" /\ sessions[i].rank = Null)
          THEN sessions[i]
     ELSE IF field = "addOns"
          THEN [sessions[i] EXCEPT !.addOns = Max(0, Min(1, @ + delta))]
          ELSE [sessions[i] EXCEPT ![field] = Max(0, @ + delta)]]

\* Mutant: the - and + buttons of a row are rendered in every phase
adjustRebuys_anyPhase(playerId, delta) ==
  /\ activeTab = "game"
  /\ playerId \in SessionIds(gameSessions)
  /\ \A i \in 1..Len(gameSessions) :
       gameSessions[i].playerId = playerId => gameSessions[i].rebuys + delta <= MaxRebuys
  /\ gameSessions' = updateSession(gameSessions, playerId, "rebuys", delta)
  /\ UNCHANGED <<activeTab, players, checkedInIds, roundHistory, numTables, tables,
                 config, gamePhase>>

\* The - and + buttons of a row, rendered while gamePhase = REBUYS_OPEN
adjustRebuys(playerId, delta) ==
  /\ activeTab = "game"
  /\ gamePhase = "REBUYS_OPEN"
  /\ playerId \in SessionIds(gameSessions)
  /\ \A i \in 1..Len(gameSessions) :
       gameSessions[i].playerId = playerId => gameSessions[i].rebuys + delta <= MaxRebuys
  /\ gameSessions' = updateSession(gameSessions, playerId, "rebuys", delta)
  /\ UNCHANGED <<activeTab, players, checkedInIds, roundHistory, numTables, tables,
                 config, gamePhase>>

\* The SIM / NAO button of a row, rendered while gamePhase = ADDONS_OPEN:
\* updateSession(id, 'addOns', session.addOns === 1 ? -1 : 1)
toggleAddOn(playerId) ==
  /\ activeTab = "game"
  /\ gamePhase = "ADDONS_OPEN"
  /\ \E i \in 1..Len(gameSessions) :
       /\ gameSessions[i].playerId = playerId
       /\ gameSessions' = updateSession(gameSessions, playerId, "addOns",
                                        IF gameSessions[i].addOns = 1 THEN -1 ELSE 1)
  /\ UNCHANGED <<activeTab, players, checkedInIds, roundHistory, numTables, tables,
                 config, gamePhase>>

addonAllIn_everyone(sessions) == [i \in 1..Len(sessions) |-> [sessions[i] EXCEPT !.addOns = 1]]

\* if (s.rank === null) return { ...s, addOns: 1 }; return s
addonAllIn(sessions) == [i \in 1..Len(sessions) |-> IF sessions[i].rank = Null THEN [sessions[i] EXCEPT !.addOns = 1] ELSE sessions[i]]

\* Rendered while gamePhase = ADDONS_OPEN; window.confirm answered yes
handleAddonAll ==
  /\ activeTab = "game"
  /\ gamePhase = "ADDONS_OPEN"
  /\ gameSessions' = addonAllIn(gameSessions)
  /\ UNCHANGED <<activeTab, players, checkedInIds, roundHistory, numTables, tables,
                 config, gamePhase>>

setRankIn_noEvict(sessions, playerId, rank) ==
  [i \in 1..Len(sessions) |->
     IF sessions[i].playerId = playerId THEN [sessions[i] EXCEPT !.rank = rank]
     ELSE sessions[i]]

\* Mutant: the first place is not taken from its holder
setRankIn_sharedFirst(sessions, playerId, rank) ==
  [i \in 1..Len(sessions) |->
     IF sessions[i].playerId = playerId THEN [sessions[i] EXCEPT !.rank = rank]
     ELSE IF sessions[i].rank = rank /\ rank # 1 THEN [sessions[i] EXCEPT !.rank = Null]
     ELSE sessions[i]]

setRankIn(sessions, playerId, rank) ==
  [i \in 1..Len(sessions) |->
     IF sessions[i].playerId = playerId THEN [sessions[i] EXCEPT !.rank = rank]
     ELSE IF sessions[i].rank = rank THEN [sessions[i] EXCEPT !.rank = Null]
     ELSE sessions[i]]

\* Mutant: the last saved record shares its sessions with the round in progress
setRank_aliased(playerId, rank) ==
  /\ activeTab = "game"
  /\ playerId \in SessionIds(gameSessions)
  /\ gameSessions' = setRankIn(gameSessions, playerId, rank)
  /\ roundHistory' = [i \in 1..Len(roundHistory) |->
                        IF i = Len(roundHistory)
                        THEN [roundHistory[i] EXCEPT !.sessions = setRankIn(@, playerId, rank)]
                        ELSE roundHistory[i]]
  /\ UNCHANGED <<activeTab, players, checkedInIds, numTables, tables, config, gamePhase>>

\* The 1, 2, 3 buttons of a row
setRank(playerId, rank) ==
  /\ activeTab = "game"
  /\ playerId \in SessionIds(gameSessions)
  /\ gameSessions' = setRankIn(gameSessions, playerId, rank)
  /\ UNCHANGED <<activeTab, players, checkedInIds, roundHistory, numTables, tables,
                 config, gamePhase>>

nextRankFrom_same(nextRank, assignedRanks) == nextRank

\* let nextRank = activeCount; while (assignedRanks.includes(nextRank) && nextRank > 0) nextRank--
RECURSIVE nextRankFrom(_, _)
nextRankFrom(nextRank, assignedRanks) ==
  IF nextRank \in assignedRanks /\ nextRank > 0
  THEN nextRankFrom(nextRank - 1, assignedRanks)
  ELSE nextRank

\* Mutant: the rank given is the player count, held or not
eliminateIn_countRank(sessions, playerId, activeCount) ==
  IF activeCount > 0 THEN setRankIn(sessions, playerId, activeCount) ELSE sessions

eliminateIn(sessions, playerId, activeCount) ==
  LET assignedRanks == { sessions[i].rank : i \in 1..Len(sessions) } \ {Null}
      nextRank      == nextRankFrom(activeCount, assignedRanks)
  IN  IF nextRank > 0 THEN setRankIn(sessions, playerId, nextRank) ELSE sessions

\* The body of handleElimination: it has no condition on the target
handleEliminationHandler(playerId) ==
  /\ gameSessions' = eliminateIn(gameSessions, playerId, activePlayerCount)
  /\ UNCHANGED <<activeTab, players, checkedInIds, roundHistory, numTables, tables,
                 config, gamePhase>>

\* Mutant: the Eliminar button is never disabled
eliminarDisabled_never(playerId) == FALSE

\* disabled={!!session.rank}
eliminarDisabled(playerId) ==
  \E i \in 1..Len(gameSessions) :
    gameSessions[i].playerId = playerId /\ gameSessions[i].rank # Null

\* The Eliminar button of a row, disabled while the row has a rank
handleElimination(playerId) ==
  /\ activeTab = "game"
  /\ playerId \in SessionIds(gameSessions)
  /\ ~eliminarDisabled(playerId)
  /\ handleEliminationHandler(playerId)

\* Mutant: the add-on phase is skipped
nextPhase_skip(phase) == IF phase = "REBUYS_OPEN" THEN "FREEZEOUT" ELSE phase

nextPhase(phase) ==
  IF phase = "REBUYS_OPEN" THEN "ADDONS_OPEN"
  ELSE IF phase = "ADDONS_OPEN" THEN "FREEZEOUT"
  ELSE phase

\* The button is rendered while gamePhase # FREEZEOUT
advancePhase ==
  /\ activeTab = "game"
  /\ gamePhase # "FREEZEOUT"
  /\ gamePhase' = nextPhase(gamePhase)
  /\ UNCHANGED <<activeTab, players, checkedInIds, roundHistory, numTables, gameSessions,
                 tables, config>>

Init ==
  /\ args = <<>>
  /\ result = <<>>
  /\ AppInit

Next ==
  /\ UNCHANGED <<args, result>>
  /\ \/ \E tab \in Tabs : setActiveTab(tab)
     \/ handleAddPlayer
     \/ \E id \in 1..MaxPlayers : handleCheckInToggle(id)
     \/ \E id \in 1..MaxPlayers : toggleDealer(id)
     \/ \E n \in 1..3 : setNumTables(n)
     \/ \E c \in AppConfigs : setConfig(c)
     \/ startRound
     \/ resetRound
     \/ saveAndFinishRound
     \/ \E id \in 1..MaxPlayers, delta \in {-1, 1} : adjustRebuys(id, delta)
     \/ \E id \in 1..MaxPlayers : toggleAddOn(id)
     \/ handleAddonAll
     \/ \E id \in 1..MaxPlayers, rank \in 1..3 : setRank(id, rank)
     \/ \E id \in 1..MaxPlayers : handleElimination(id)
     \/ advancePhase

Spec == Init /\ [][Next]_vars

(***************************************************************************)
(* calculateFinancials called on bounded inputs                            *)
(***************************************************************************)
MaxSessions == 4

\* The stakes and the rank of a session; the list gives each its playerId.
SessionKinds ==
  { [buyIns |-> 1, rebuys |-> 0, addOns |-> 0, rank |-> Null],
    [buyIns |-> 1, rebuys |-> 0, addOns |-> 0, rank |-> 1],
    [buyIns |-> 1, rebuys |-> 1, addOns |-> 0, rank |-> 2],
    [buyIns |-> 1, rebuys |-> 0, addOns |-> 1, rank |-> 3],
    [buyIns |-> 2, rebuys |-> 2, addOns |-> 1, rank |-> 4] }

WithId(k, id) ==
  [playerId |-> id, buyIns |-> k.buyIns, rebuys |-> k.rebuys,
   addOns |-> k.addOns, rank |-> k.rank]

SessionLists ==
  UNION { { [i \in 1..n |-> WithId(ks[i], i)] : ks \in [1..n -> SessionKinds] }
          : n \in 0..MaxSessions }

\* Non-negative unit costs: the default, the 40-unit shared cost of the
\* end-to-end scenario, fractional stakes, and stakes that are no multiple of 5.
Configs ==
  { INITIAL_CONFIG,
    Cfg(FromInt(50), FromInt(50), FromInt(50), FromInt(40)),
    Cfg(Lit(125, 10), Lit(625, 100), FromInt(25), FromInt(10)),
    Cfg(FromInt(32), FromInt(3), FromInt(7), FromInt(100)),
    Cfg(FromInt(0), FromInt(10), FromInt(5), FromInt(0)) }

InitFin ==
  /\ args \in { [sessions |-> ss, config |-> c] : ss \in SessionLists, c \in Configs }
  /\ result = <<>>
  /\ AppInit

Settle ==
  /\ result = <<>>
  /\ result' = <<calculateFinancials(args.sessions, args.config)>>
  /\ UNCHANGED <<args, appVars>>

NextFin == Settle

SpecFin == InitFin /\ [][NextFin]_vars

(***************************************************************************)
(* calculatePoints called on bounded inputs                                *)
(***************************************************************************)
MaxN == 26
MaxNeg == 2

InitPts ==
  /\ args \in { [n |-> n, p |-> p] : n \in 0..MaxN, p \in -MaxNeg..MaxN }
  /\ result = <<>>
  /\ AppInit

Score ==
  /\ result = <<>>
  /\ result' = <<calculatePoints(args.n, args.p)>>
  /\ UNCHANGED <<args, appVars>>

NextPts == Score

SpecPts == InitPts /\ [][NextPts]_vars

(***************************************************************************)
(* drawTables called on bounded inputs                                     *)
(***************************************************************************)
MaxRoster == 5
TableSlack == 2

\* The players of ids taken in ascending order, each with or without the
\* dealer flag
RosterOf(ids, flags) ==
  LET RECURSIVE upTo(_)
      upTo(id) == IF id = 0 THEN <<>>
                  ELSE IF id \in ids
                       THEN Append(upTo(id - 1), [id |-> id, isDealer |-> id \in flags])
                       ELSE upTo(id - 1)
  IN  upTo(MaxRoster)

Rosters == { RosterOf(ids, flags) : ids \in SUBSET (1..MaxRoster), flags \in SUBSET (1..MaxRoster) }

NonDealerCount(ps) == Len(SelectSeq(ps, LAMBDA q : ~q.isDealer))

InitDraw ==
  /\ args \in UNION { { [players |-> ps, numberOfTables |-> n, rnd |-> rnd] :
                          n \in (1 - TableSlack)..(3 + TableSlack),
                          rnd \in RandomDraws(NonDealerCount(ps)) }
                      : ps \in Rosters }
  /\ result = <<>>
  /\ AppInit

Draw ==
  /\ result = <<>>
  /\ result' = <<drawTables(args.players, args.numberOfTables, args.rnd)>>
  /\ UNCHANGED <<args, appVars>>

NextDraw == Draw

SpecDraw == InitDraw /\ [][NextDraw]_vars

(***************************************************************************)
(* startRound from every state in which no round exists: any number of     *)
(* registered players (ids 1..n as handleAddPlayer numbers them), any      *)
(* dealer marking, any set of checked-in players, any table count.         *)
(***************************************************************************)
InitStart ==
  /\ args = <<>>
  /\ result = <<>>
  /\ activeTab = "setup"
  /\ \E n \in 0..MaxRoster : \E flags \in SUBSET (1..n) :
        players = RosterOf(1..n, flags)
  /\ checkedInIds \in SUBSET PlayerIds
  /\ roundHistory = <<>>
  /\ numTables \in 1..3
  /\ gameSessions = <<>>
  /\ tables = <<>>
  /\ config = INITIAL_CONFIG
  /\ gamePhase = "REBUYS_OPEN"

NextStart == UNCHANGED <<args, result>> /\ startRound

SpecStart == InitStart /\ [][NextStart]_vars

(***************************************************************************)
(* One call of a ledger handler on the sessions of a round: updateSession, *)
(* handleElimination or setRank, with a player id that may have no         *)
(* session and with deltas beyond the -1 and +1 the buttons send.  The     *)
(* ledgers are those a round can hold: ids 1..n, one buy-in, any counts,   *)
(* ranks given at most once.                                               *)
(***************************************************************************)
MaxDelta == 2

Ranks == 1..Max(3, MaxPlayers)

Stakes == [rebuys : 0..MaxRebuys, addOns : 0..1, rank : {Null} \cup Ranks]

RanksOnce(f, n) == \A i, k \in 1..n : (i # k /\ f[i].rank # Null) => f[i].rank # f[k].rank

LedgerOf(f, n) == [i \in 1..n |-> [playerId |-> i, buyIns |-> 1, rebuys |-> f[i].rebuys, addOns |-> f[i].addOns, rank |-> f[i].rank]]

Ledgers == UNION { { LedgerOf(f, n) : f \in { g \in [1..n -> Stakes] : RanksOnce(g, n) } } : n \in 2..MaxPlayers }

Call(op, sessions, playerId, field, delta, rank, activeCount) == [op |-> op, sessions |-> sessions, playerId |-> playerId, field |-> field, delta |-> delta, rank |-> rank, activeCount |-> activeCount]

InitLedger ==
  /\ \E l \in Ledgers : \E id \in 1..(MaxPlayers + 1) :
        \/ \E field \in {"rebuys", "addOns"} : \E delta \in (0 - MaxDelta)..MaxDelta :
              args = Call("updateSession", l, id, field, delta, Null, 0)
        \/ \E activeCount \in 0..MaxPlayers :
              args = Call("handleElimination", l, id, "rank", 0, Null, activeCount)
        \/ \E rank \in Ranks :
              args = Call("setRank", l, id, "rank", 0, rank, 0)
  /\ result = <<>>
  /\ AppInit

CallUpdateSession ==
  /\ result = <<>>
  /\ args.op = "updateSession"
  /\ result' = <<updateSession(args.sessions, args.playerId, args.field, args.delta)>>
  /\ UNCHANGED <<args, appVars>>

CallHandleElimination ==
  /\ result = <<>>
  /\ args.op = "handleElimination"
  /\ result' = <<eliminateIn(args.sessions, args.playerId, args.activeCount)>>
  /\ UNCHANGED <<args, appVars>>

CallSetRank ==
  /\ result = <<>>
  /\ args.op = "setRank"
  /\ result' = <<setRankIn(args.sessions, args.playerId, args.rank)>>
  /\ UNCHANGED <<args, appVars>>

NextLedger == CallUpdateSession \/ CallHandleElimination \/ CallSetRank

SpecLedger == InitLedger /\ [][NextLedger]_vars

(***************************************************************************)
(* A round that is started and then only sees eliminations.                *)
(***************************************************************************)
NextElim ==
  /\ UNCHANGED <<args, result>>
  /\ \/ startRound
     \/ \E id \in 1..MaxRoster : handleElimination(id)

SpecElim == InitStart /\ [][NextElim]_vars

(***************************************************************************)
(* A season: the players are registered and checked in, and rounds are     *)
(* played, reset and saved one after the other, so that a round runs       *)
(* while the history holds the record of an earlier one.                   *)
(***************************************************************************)
InitSeason ==
  /\ args = <<>>
  /\ result = <<>>
  /\ activeTab = "setup"
  /\ players = RosterOf(1..MaxPlayers, {})
  /\ checkedInIds = PlayerIds
  /\ roundHistory = <<>>
  /\ numTables = 1
  /\ gameSessions = <<>>
  /\ tables = <<>>
  /\ config = INITIAL_CONFIG
  /\ gamePhase = "REBUYS_OPEN"

NextSeason ==
  /\ UNCHANGED <<args, result>>
  /\ \/ \E tab \in Tabs : setActiveTab(tab)
     \/ startRoundWithin(MaxRounds + 1)
     \/ resetRound
     \/ saveAndFinishRound
     \/ \E id \in 1..MaxPlayers, delta \in {-1, 1} : adjustRebuys(id, delta)
     \/ \E id \in 1..MaxPlayers : toggleAddOn(id)
     \/ handleAddonAll
     \/ \E id \in 1..MaxPlayers, rank \in 1..3 : setRank(id, rank)
     \/ \E id \in 1..MaxPlayers : handleElimination(id)
     \/ advancePhase

SpecSeason == InitSeason /\ [][NextSeason]_vars

(***************************************************************************)
(* One round of the registered players, from its start to its reset or     *)
(* its saving, with every control of the round.                            *)
(***************************************************************************)
NextRound ==
  /\ UNCHANGED <<args, result>>
  /\ \/ \E tab \in Tabs : setActiveTab(tab)
     \/ startRound
     \/ resetRound
     \/ saveAndFinishRound
     \/ \E id \in 1..MaxPlayers, delta \in {-1, 1} : adjustRebuys(id, delta)
     \/ \E id \in 1..MaxPlayers : toggleAddOn(id)
     \/ handleAddonAll
     \/ \E id \in 1..MaxPlayers, rank \in 1..3 : setRank(id, rank)
     \/ \E id \in 1..MaxPlayers : handleElimination(id)
     \/ advancePhase

SpecRound == InitSeason /\ [][NextRound]_vars

(***************************************************************************)
(* shuffle on the non-dealers of a roster, for every outcome of its        *)
(* random draws.                                                           *)
(***************************************************************************)
InitShuffle ==
  /\ \E ids \in SUBSET (1..MaxRoster) : \E rnd \in RandomDraws(Cardinality(ids)) :
        args = [array |-> RosterOf(ids, {}), rnd |-> rnd]
  /\ result = <<>>
  /\ AppInit

Shuffle ==
  /\ result = <<>>
  /\ result' = <<shuffle(args.array, args.rnd)>>
  /\ UNCHANGED <<args, appVars>>

NextShuffle == Shuffle

SpecShuffle == InitShuffle /\ [][NextShuffle]_vars

(***************************************************************************)
(* Exact arithmetic for the statements                                     *)
(***************************************************************************)
Done == result # <<>>
R == result[1]

Five == FromInt(5)

\* 2^-50: four units in the last place of a binary64 in [1, 2)
RelEps == Dy(0, <<1>>, -50)

\* |x - y| <= tol, exactly
Within(x, y, tol) == DyLe(Abs(DySub(x, y)), tol)

\* x = y up to the rounding of binary64 arithmetic
Close(x, y) == Within(x, y, DyMul(RelEps, Abs(y)))

\* k * x, exactly
Times(k, x) == DyMul(FromInt(k), x)

\* x is an integer and a multiple of k (0 < k < 2^15)
MultipleOf(x, k) ==
  \/ IsZero(x)
  \/ /\ x.e >= 0
     /\ LET n == BShl(x.m, x.e) IN BSub(n, BMulSmall(BDivSmall(n, k), k)) = <<>>

\* x / 5 is a binary64: the odd significand of x is a multiple of 5
FifthIsExact(x) == IsZero(x) \/ BSub(x.m, BMulSmall(BDivSmall(x.m, 5), 5)) = <<>>

\* buyIns*buyInCost + rebuys*rebuyCost + addOns*addOnCost, exactly
ExactStake(s, cfg) ==
  DyAdd(DyAdd(Times(s.buyIns, cfg.buyInCost), Times(s.rebuys, cfg.rebuyCost)),
        Times(s.addOns, cfg.addOnCost))

RECURSIVE ExactGross(_, _, _)
ExactGross(sessions, cfg, i) ==
  IF i = 0 THEN Zero
  ELSE DyAdd(ExactGross(sessions, cfg, i - 1), ExactStake(sessions[i], cfg))

PrizeList(r) == <<r.prizes.first, r.prizes.second, r.prizes.third>>
ShareList == <<FirstShare, SecondShare, ThirdShare>>

\* rawPrizes of the returned netPrizePool
RawPrize(r, k) == FMul(r.netPrizePool, ShareList[k])

(***************************************************************************)
(* Settlement (SpecFin)                                                    *)
(***************************************************************************)
\* C1: for every session list and configuration, adminTax + mainEventPot +
\* prizes.first + prizes.second + prizes.third equals grossTotal exactly, with
\* no tolerance: the sum as the program's own arithmetic evaluates it, left to
\* right, compared with ===.
C1_SettlementExact ==
  Done =>
    DyEq(FAdd(FAdd(FAdd(FAdd(R.adminTax, R.mainEventPot), R.prizes.first),
                   R.prizes.second), R.prizes.third),
         R.grossTotal)

C3_GrossPotNet ==
  Done =>
    LET g   == R.grossTotal
        pot == R.mainEventPot
        net == R.netPrizePool
    IN  /\ DyEq(g, ExactGross(args.sessions, args.config, Len(args.sessions)))
        /\ Close(Times(20, pot), g)
        /\ Close(DyAdd(Times(20, net), Times(20, pot)), Times(17, g))
        /\ Close(Times(5, net), Times(4, g))
        /\ FifthIsExact(g) =>
             /\ DyEq(Times(20, pot), g)
             /\ DyEq(Times(5, net), Times(4, g))

\* Rebuys and add-ons are in the pot, and a twentieth of it is no binary64.
C3_Witness ==
  /\ Done
  /\ \E i \in 1..Len(args.sessions) : args.sessions[i].rebuys > 0
  /\ \E i \in 1..Len(args.sessions) : args.sessions[i].addOns > 0
  /\ ~FifthIsExact(R.grossTotal)
  /\ ~DyEq(Times(20, R.mainEventPot), R.grossTotal)

\* C4: a session ranked 1, 2 or 3 receives the first, second or third prize,
\* which are the multiples of 10 nearest to 50%, 30% and 20% of netPrizePool;
\* a session with a null rank or a rank above 3 receives 0.
C4_PrizeByRank ==
  Done =>
    LET net == R.netPrizePool
        tol == DyAdd(FromInt(50), DyMul(RelEps, Times(10, Abs(net))))
    IN  /\ \A i \in 1..Len(args.sessions) :
             LET rank == args.sessions[i].rank
                 got  == R.playerBalances[i].prizeReceived
             IN  /\ rank = 1 => got = R.prizes.first
                 /\ rank = 2 => got = R.prizes.second
                 /\ rank = 3 => got = R.prizes.third
                 /\ (rank = Null \/ rank > 3) => IsZero(got)
        /\ \A k \in 1..3 : MultipleOf(PrizeList(R)[k], 10)
        /\ Within(Times(10, R.prizes.first),  Times(5, net), tol)
        /\ Within(Times(10, R.prizes.second), Times(3, net), tol)
        /\ Within(Times(10, R.prizes.third),  Times(2, net), tol)

\* Three different positive prizes are paid, and a session with no rank and a
\* session ranked fourth receive nothing.
C4_Witness ==
  /\ Done
  /\ \E i, j, k, l \in 1..Len(args.sessions) :
       /\ args.sessions[i].rank = 1 /\ ~IsZero(R.playerBalances[i].prizeReceived)
       /\ args.sessions[j].rank = 2 /\ ~IsZero(R.playerBalances[j].prizeReceived)
       /\ args.sessions[k].rank = 3 /\ ~IsZero(R.playerBalances[k].prizeReceived)
       /\ args.sessions[l].rank = 4 /\ IsZero(R.playerBalances[l].prizeReceived)
       /\ DyLt(R.prizes.third, R.prizes.second)
       /\ DyLt(R.prizes.second, R.prizes.first)

\* C5: every balance has totalPaid = the session's own stake cost, bbqShare =
\* bbqCost / number of sessions (the same for all, to the rounding of binary64)
\* and netBalance = prizeReceived - totalPaid - bbqShare (the nearest binary64).
C5_Balances ==
  Done =>
    \A i \in 1..Len(args.sessions) :
      LET b == R.playerBalances[i]
          n == Len(args.sessions)
      IN  /\ b.playerId = args.sessions[i].playerId
          /\ DyEq(b.totalPaid, ExactStake(args.sessions[i], args.config))
          /\ Close(Times(n, b.bbqShare), args.config.bbqCost)
          /\ n \in {1, 2, 4} => DyEq(Times(n, b.bbqShare), args.config.bbqCost)
          /\ b.bbqShare = R.playerBalances[1].bbqShare
          /\ b.netBalance = Fl(DySub(DySub(b.prizeReceived, b.totalPaid), b.bbqShare))

\* Three sessions share a cost that does not divide by three, one of them is
\* paid a prize and the sessions have paid different stakes.
C5_Witness ==
  /\ Done
  /\ Len(args.sessions) = 3
  /\ ~DyEq(Times(3, R.playerBalances[1].bbqShare), args.config.bbqCost)
  /\ \E i \in 1..3 : ~IsZero(R.playerBalances[i].prizeReceived)
  /\ \E i, j \in 1..3 : ~DyEq(R.playerBalances[i].totalPaid, R.playerBalances[j].totalPaid)

\* C6: on an empty session list every total, every prize and the rounding
\* adjustment are 0 and there is no balance.
C6_EmptyList ==
  (Done /\ args.sessions = <<>>) =>
    /\ IsZero(R.grossTotal)
    /\ IsZero(R.adminTax)
    /\ IsZero(R.mainEventPot)
    /\ IsZero(R.netPrizePool)
    /\ \A k \in 1..3 : IsZero(PrizeList(R)[k])
    /\ IsZero(R.roundingAdjustment)
    /\ R.playerBalances = <<>>

\* The settlement of no session with a shared cost to split.
C6_Witness ==
  /\ Done
  /\ args.sessions = <<>>
  /\ ~IsZero(args.config.bbqCost)

\* C7: four sessions with one buy-in each and costs 50/50/50/40 settle to
\* gross 200, pot 10, net pool 160, prizes 80/50/30, adjustment 0, tax 30,
\* a shared cost of 10 each and a net balance of 20 for the winner.
Fixture ==
  /\ Len(args.sessions) = 4
  /\ \A i \in 1..4 :
       /\ args.sessions[i].buyIns = 1
       /\ args.sessions[i].rebuys = 0
       /\ args.sessions[i].addOns = 0
  /\ args.config = Cfg(FromInt(50), FromInt(50), FromInt(50), FromInt(40))

C7_Fixture ==
  (Done /\ Fixture) =>
    /\ R.grossTotal = FromInt(200)
    /\ R.mainEventPot = FromInt(10)
    /\ R.netPrizePool = FromInt(160)
    /\ PrizeList(R) = <<FromInt(80), FromInt(50), FromInt(30)>>
    /\ R.roundingAdjustment = Zero
    /\ R.adminTax = FromInt(30)
    /\ \A i \in 1..4 :
         /\ R.playerBalances[i].bbqShare = Ten
         /\ args.sessions[i].rank = 1 => R.playerBalances[i].netBalance = FromInt(20)

\* The scenario, settled, with a winner.
C7_Witness ==
  /\ Done
  /\ Fixture
  /\ \E i \in 1..4 : args.sessions[i].rank = 1

(***************************************************************************)
(* Scoring (SpecPts)                                                       *)
(***************************************************************************)
\* C8: for n >= 1 and p >= 1, calculatePoints(n, p) is (n + 1) - p + n/p with
\* non-truncating division: p * points = p * (n + 1 - p) + n to the rounding of
\* binary64, and with no error when p divides n; calculatePoints(25, 1) = 50
\* and calculatePoints(25, 3) is 94/3 to that rounding.
C8_Formula ==
  (Done /\ args.n >= 1 /\ args.p >= 1) =>
    LET n == args.n
        p == args.p
    IN  /\ Within(Times(p, R), FromInt(p * (n + 1 - p) + n),
                  DyMul(RelEps, FromInt(p * (n + 1 + p))))
        /\ n % p = 0 => R = FromInt((n + 1 - p) + (n \div p))
        /\ (n = 25 /\ p = 1) => R = FromInt(50)
        /\ (n = 25 /\ p = 3) => Within(Times(3, R), FromInt(94), DyMul(RelEps, FromInt(94)))

\* calculatePoints(25, 3), which is no integer.
C8_Witness ==
  /\ Done
  /\ args.n = 25
  /\ args.p = 3
  /\ DyLt(FromInt(31), R)
  /\ DyLt(R, FromInt(32))

\* C9 as stated: for every n >= 1, calculatePoints(n, 1) = n.
C9_WinnerScoresN ==
  (Done /\ args.n >= 1 /\ args.p = 1) => DyEq(R, FromInt(args.n))

\* C9, amended: for every n >= 1, calculatePoints(n, 1) = 2n.
C9_WinnerScoresTwiceN ==
  (Done /\ args.n >= 1 /\ args.p = 1) => R = FromInt(2 * args.n)

\* The winner of a 25-player round has 50 points.
C9_Witness ==
  /\ Done
  /\ args.n = 25
  /\ args.p = 1
  /\ R = FromInt(50)
\* C10: calculatePoints(n, p) is 0 for every p <= 0, whatever n is; and a
\* session whose rank is null scores 0 both in the points column of the finance
\* view and in the result saved for it when the round is finished.
C10_NoRankNoPoints ==
  /\ \A n \in (0 - MaxNeg)..MaxN : \A p \in (0 - MaxNeg)..0 : calculatePoints(n, p) = Zero
  /\ \A i \in 1..Len(gameSessions) :
       gameSessions[i].rank = Null => livePoints(gameSessions[i].playerId) = Zero
  /\ \A r \in 1..Len(roundHistory) : \A i \in 1..Len(roundHistory[r].sessions) :
       roundHistory[r].sessions[i].rank = Null => savedPoints(roundHistory[r], i) = Zero

\* A round saved with one session ranked and the other not, its players checked in
C10_Witness ==
  /\ Len(roundHistory) > 0
  /\ roundHistory[1].activePlayerCount >= 2
  /\ \E i, j \in 1..Len(roundHistory[1].sessions) :
       /\ roundHistory[1].sessions[i].rank = Null
       /\ roundHistory[1].sessions[j].rank = 1
       /\ savedPoints(roundHistory[1], i) = Zero
       /\ ~IsZero(savedPoints(roundHistory[1], j))

(***************************************************************************)
(* Table draw (SpecDraw)                                                   *)
(***************************************************************************)
RECURSIVE SeatsFrom(_, _)
SeatsFrom(ts, i) == IF i > Len(ts) THEN <<>> ELSE ts[i].players \o SeatsFrom(ts, i + 1)

\* Every seat of every table, in one list
Seats(ts) == SeatsFrom(ts, 1)

IdsOf(ps) == { ps[i].id : i \in 1..Len(ps) }
SeatedIds(ts) == { Seats(ts)[i] : i \in 1..Len(Seats(ts)) }

\* C11: for every roster with distinct ids and every table count, the seats
\* over all tables are as many as the players, no id is seated twice and
\* exactly the ids of the roster are seated.
C11_SeatedOnce ==
  Done =>
    /\ Len(Seats(R)) = Len(args.players)
    /\ \A i, j \in 1..Len(Seats(R)) : Seats(R)[i] = Seats(R)[j] => i = j
    /\ SeatedIds(R) = IdsOf(args.players)

\* Dealers and shuffled non-dealers over two tables or more
C11_Witness ==
  /\ Done
  /\ Len(args.players) >= 4
  /\ Len(R) >= 2
  /\ NonDealerCount(args.players) \in 2..(Len(args.players) - 1)
  /\ \E c \in DOMAIN args.rnd : args.rnd[c] # c - 1
  /\ Cardinality(SeatedIds(R)) = Len(args.players)

\* C12: for every non-empty roster, whatever its number of dealers, every
\* table count and every outcome of the shuffle, any two tables differ in size
\* by at most one seat.
C12_Balanced ==
  (Done /\ Len(args.players) > 0) =>
    \A i, j \in 1..Len(R) : Len(R[i].players) - Len(R[j].players) <= 1

\* Three tables of unequal sizes filled by dealers and non-dealers
C12_Witness ==
  /\ Done
  /\ Len(R) = 3
  /\ NonDealerCount(args.players) >= 2
  /\ NonDealerCount(args.players) < Len(args.players)
  /\ \E i, j \in 1..3 : Len(R[i].players) = Len(R[j].players) + 1

Clamped(n) == IF n < 1 THEN 1 ELSE IF n > 3 THEN 3 ELSE n

\* C13: for a non-empty roster the requested table count is clamped to 1..3
\* and exactly that many tables are returned, with ids 1..K in ascending order,
\* empty tables included.
C13_ClampedCount ==
  (Done /\ Len(args.players) > 0) =>
    /\ Len(R) = Clamped(args.numberOfTables)
    /\ \A i \in 1..Len(R) : R[i].id = i

\* More tables requested than 3, more tables than players: an empty table is returned
C13_Witness ==
  /\ Done
  /\ Len(args.players) = 2
  /\ args.numberOfTables > 3
  /\ Len(R) = 3
  /\ \E i \in 1..3 : R[i].players = <<>>

\* C14: on an empty roster drawTables returns an empty list of tables, for
\* every requested table count.
C14_EmptyRoster ==
  (Done /\ Len(args.players) = 0) => R = <<>>

C14_Witness ==
  /\ Done
  /\ Len(args.players) = 0
  /\ args.numberOfTables = 3
  /\ R = <<>>

\* The non-dealers in the order the shuffle left them in, and the dealers
ShuffledIds == LET sh == shuffle(SelectSeq(args.players, LAMBDA q : ~q.isDealer), args.rnd) IN [k \in 1..Len(sh) |-> sh[k].id]
DealerIds == { args.players[i].id : i \in { j \in 1..Len(args.players) : args.players[j].isDealer } }

\* The table (its id, which is its place in the result) at which a player sits
TableOf(id) == CHOOSE t \in 1..Len(R) : \E k \in 1..Len(R[t].players) : R[t].players[k] = id

\* The size of table t when the k-th shuffled non-dealer is about to be seated
SizeBefore(t, k) == Cardinality({ id \in DealerIds \cup { ShuffledIds[j] : j \in 1..(k - 1) } : TableOf(id) = t })

\* The tables that are smallest at that moment
SmallestBefore(k) == { t \in 1..Len(R) : \A u \in 1..Len(R) : SizeBefore(t, k) <= SizeBefore(u, k) }

LeastOf(S) == CHOOSE t \in S : \A u \in S : t <= u
GreatestOf(S) == CHOOSE t \in S : \A u \in S : t >= u

\* C26 as stated: each shuffled non-dealer is seated at the table of lowest id
\* among the tables that are smallest at that moment.
C26_LowestIdOnTie ==
  Done =>
    \A k \in 1..Len(ShuffledIds) : TableOf(ShuffledIds[k]) = LeastOf(SmallestBefore(k))

\* C26 (amended): each shuffled non-dealer is seated at one of the tables that
\* are smallest at that moment; among these, at the one that received a
\* non-dealer most recently, and at the one of lowest id only when none of
\* them has received a non-dealer yet (with 3 tables and 4 non-dealers and no
\* dealer, the 4th player goes to table 3, where the 3rd went).
C26_LatestFilledOnTie ==
  Done =>
    /\ \A k \in 1..Len(ShuffledIds) :
         LET S      == SmallestBefore(k)
             before == { j \in 1..(k - 1) : TableOf(ShuffledIds[j]) \in S }
         IN  TableOf(ShuffledIds[k]) =
               IF before = {} THEN LeastOf(S)
               ELSE TableOf(ShuffledIds[GreatestOf(before)])
    /\ (Len(R) = 3 /\ DealerIds = {} /\ Len(ShuffledIds) = 4) =>
         TableOf(ShuffledIds[4]) = 3

\* Three tables, no dealer, 4 non-dealers or more
C26_Witness ==
  /\ Done
  /\ Len(R) = 3
  /\ DealerIds = {}
  /\ Len(ShuffledIds) >= 4
  /\ TableOf(ShuffledIds[4]) = TableOf(ShuffledIds[3])

\* The dealers in the order of the roster
DealerList == LET ds == SelectSeq(args.players, LAMBDA q : q.isDealer) IN [i \in 1..Len(ds) |-> ds[i].id]

\* The dealers routed to table t: those of index t - 1, t - 1 + K, ... (from 0)
DealersAt(t) ==
  LET K == Len(R)
      n == Cardinality({ i \in 0..(Len(DealerList) - 1) : i % K = t - 1 })
  IN  [m \in 1..n |-> DealerList[(t - 1) + (m - 1) * K + 1]]

\* C27: with K tables the i-th dealer of the roster (from 0) sits at table
\* (i mod K) + 1; the dealers of a table hold its first seats in the order of
\* the roster, the first of them seat 0, and every non-dealer of the table
\* sits after all of them, for every outcome of the shuffle.
C27_DealersFirst ==
  (Done /\ Len(args.players) > 0) =>
    /\ \A i \in 0..(Len(DealerList) - 1) : TableOf(DealerList[i + 1]) = (i % Len(R)) + 1
    /\ \A t \in 1..Len(R) :
         /\ Len(R[t].players) >= Len(DealersAt(t))
         /\ SubSeq(R[t].players, 1, Len(DealersAt(t))) = DealersAt(t)
         /\ \A k \in (Len(DealersAt(t)) + 1)..Len(R[t].players) : R[t].players[k] \notin DealerIds

\* More dealers than tables, two tables or more, and non-dealers seated
\* behind a dealer
C27_Witness ==
  /\ Done
  /\ Len(R) >= 2
  /\ Len(DealerList) > Len(R)
  /\ Len(ShuffledIds) >= 2
  /\ \E t \in 1..Len(R) : Len(DealersAt(t)) = 2
  /\ \E t \in 1..Len(R) : Len(DealersAt(t)) >= 1 /\ Len(R[t].players) > Len(DealersAt(t))

(***************************************************************************)
(* The round session (Spec)                                                *)
(***************************************************************************)
\* C15: while a round is in progress the phase only moves REBUYS_OPEN ->
\* ADDONS_OPEN -> FREEZEOUT: every advance moves it exactly one step forward,
\* every step that keeps the round in progress leaves the phase or moves it
\* one step forward, and an advance in FREEZEOUT changes nothing.
C15_PhaseForward ==
  [][ /\ (HasRound /\ HasRound') =>
           \/ gamePhase' = gamePhase
           \/ gamePhase = "REBUYS_OPEN" /\ gamePhase' = "ADDONS_OPEN"
           \/ gamePhase = "ADDONS_OPEN" /\ gamePhase' = "FREEZEOUT"
      /\ advancePhase =>
           /\ gamePhase # gamePhase'
           /\ gamePhase = "REBUYS_OPEN" => gamePhase' = "ADDONS_OPEN"
           /\ gamePhase = "ADDONS_OPEN" => gamePhase' = "FREEZEOUT"
      /\ nextPhase("FREEZEOUT") = "FREEZEOUT"
      /\ (gamePhase' # gamePhase /\ ~(HasRound /\ HasRound')) =>
           /\ startRound \/ resetRound \/ saveAndFinishRound
           /\ gamePhase' = "REBUYS_OPEN"
    ]_vars

\* A round that has been advanced twice
C15_Witness ==
  /\ HasRound
  /\ gamePhase = "FREEZEOUT"

\* C18: in every reachable state of a round every session has exactly one
\* buy-in, a rebuy count of at least 0 and an add-on count of 0 or 1.
C18_StakesInRange ==
  \A i \in 1..Len(gameSessions) :
    /\ gameSessions[i].buyIns = 1
    /\ gameSessions[i].rebuys >= 0
    /\ gameSessions[i].addOns \in {0, 1}

\* A frozen round in which rebuys and add-ons were taken and a rank was given
C18_Witness ==
  /\ gamePhase = "FREEZEOUT"
  /\ \E i \in 1..Len(gameSessions) : gameSessions[i].rebuys = MaxRebuys
  /\ \E i \in 1..Len(gameSessions) : gameSessions[i].rebuys = 0
  /\ \E i \in 1..Len(gameSessions) : gameSessions[i].addOns = 1
  /\ \E i \in 1..Len(gameSessions) : gameSessions[i].addOns = 0
  /\ \E i \in 1..Len(gameSessions) : gameSessions[i].rank # Null

\* C22: no two sessions of a round ever hold the same non-null rank; setRank
\* gives the addressed session the rank, clears the rank of the session that
\* held it, and leaves the rank of every other session as it was.
C22_RankHeldOnce ==
  [][ /\ \A i, k \in 1..Len(gameSessions') :
           (i # k /\ gameSessions'[i].rank # Null) => gameSessions'[i].rank # gameSessions'[k].rank
      /\ \A id \in 1..MaxPlayers, r \in 1..3 :
           setRank(id, r) =>
             /\ Len(gameSessions') = Len(gameSessions)
             /\ \A i \in 1..Len(gameSessions) :
                  gameSessions'[i].rank =
                    IF gameSessions[i].playerId = id THEN r
                    ELSE IF gameSessions[i].rank = r THEN Null
                    ELSE gameSessions[i].rank
    ]_vars

\* Two sessions holding different ranks
C22_Witness ==
  \E i, k \in 1..Len(gameSessions) :
    /\ gameSessions[i].rank # Null
    /\ gameSessions[k].rank # Null
    /\ gameSessions[i].rank # gameSessions[k].rank

\* C23: the add-on for all sets addOns to 1 in every session without a rank
\* and leaves the addOns of every ranked session as it was; it changes no
\* buyIns, rebuys, rank or player of a session, nor the phase, nor the tables.
C23_AddonAll ==
  [][ handleAddonAll =>
        /\ Len(gameSessions') = Len(gameSessions)
        /\ \A i \in 1..Len(gameSessions) :
             /\ gameSessions'[i].addOns =
                  IF gameSessions[i].rank = Null THEN 1 ELSE gameSessions[i].addOns
             /\ gameSessions'[i].playerId = gameSessions[i].playerId
             /\ gameSessions'[i].buyIns = gameSessions[i].buyIns
             /\ gameSessions'[i].rebuys = gameSessions[i].rebuys
             /\ gameSessions'[i].rank = gameSessions[i].rank
        /\ gamePhase' = gamePhase
        /\ tables' = tables
    ]_vars

\* In the add-on phase, a ranked session without the add-on next to an
\* unranked session that has it
C23_Witness ==
  /\ gamePhase = "ADDONS_OPEN"
  /\ \E i, k \in 1..Len(gameSessions) :
       /\ gameSessions[i].rank # Null /\ gameSessions[i].addOns = 0
       /\ gameSessions[k].rank = Null /\ gameSessions[k].addOns = 1

IsDealerNow(id) == \E i \in 1..Len(players) : players[i].id = id /\ players[i].isDealer

\* C24: between two states of the same round the tables, their members and
\* the order of their seats do not change, whichever operation is taken:
\* a count edit, the add-on for all, an elimination, a rank, an advance of the
\* phase, a check-in or a change of a dealer flag.
C24_SeatingFixed ==
  [][ (HasRound /\ HasRound') => tables' = tables ]_vars

\* A round in progress whose first seat is held by a player who is no dealer
\* now while a later seat of the table is held by one who is: the flags were
\* changed after the draw.  A rank has been given as well.
C24_Witness ==
  /\ HasRound
  /\ \E t \in 1..Len(tables) : \E k \in 2..Len(tables[t].players) :
       ~IsDealerNow(tables[t].players[1]) /\ IsDealerNow(tables[t].players[k])
  /\ \E i \in 1..Len(gameSessions) : gameSessions[i].rank # Null

HeldRanks(sessions) == { sessions[i].rank : i \in 1..Len(sessions) } \ {Null}
FreeRanks(sessions) == (1..Len(sessions)) \ HeldRanks(sessions)

\* C28: an elimination of a player without a rank gives the player the
\* largest value of 1..N that no session holds, N being the number of players
\* of the round, and changes nothing else; when every value of 1..N is held
\* it changes nothing.
C28_LargestFreeRank ==
  [][ \A id \in 1..MaxPlayers :
        handleElimination(id) =>
          IF FreeRanks(gameSessions) = {}
          THEN gameSessions' = gameSessions
          ELSE gameSessions' =
                 [i \in 1..Len(gameSessions) |->
                    IF gameSessions[i].playerId = id
                    THEN [gameSessions[i] EXCEPT !.rank = GreatestOf(FreeRanks(gameSessions))]
                    ELSE gameSessions[i]]
    ]_vars

\* C30: every record of the history has the gross total of the settlement of
\* the round's final ledger as its totalPot and, for every session of the
\* round, one entry with the session's rank, its net balance of the
\* settlement, and calculatePoints(N, rank) points when the rank is set, N
\* being the number of players of the round, and 0 points when it is not.
C30_RecordOfRound ==
  \A h \in 1..Len(roundHistory) :
    LET saved  == roundHistory[h]
        record == historyEntry(saved)
        N      == Len(saved.sessions)
    IN  /\ record.totalPot = calculateFinancials(saved.sessions, saved.config).grossTotal
        /\ Len(record.playerResults) = N
        /\ \A i \in 1..N :
             /\ record.playerResults[i].playerId = saved.sessions[i].playerId
             /\ record.playerResults[i].rank = saved.sessions[i].rank
             /\ record.playerResults[i].netBalance =
                  calculateFinancials(saved.sessions, saved.config).playerBalances[i].netBalance
             /\ record.playerResults[i].points =
                  IF saved.sessions[i].rank # Null
                  THEN calculatePoints(N, saved.sessions[i].rank)
                  ELSE Zero

\* C32: while a round is in progress the player count that the elimination
\* and the scoring use is the number of sessions of the round, and so is the
\* count with which every saved round was scored.
C32_CountIsSessions ==
  /\ HasRound => activePlayerCount = Len(gameSessions)
  /\ \A h \in 1..Len(roundHistory) :
       roundHistory[h].activePlayerCount = Len(roundHistory[h].sessions)

\* C36: in every state of a round every rank held by a session is between 1
\* and the number of sessions of the round.
C36_RankInRange ==
  \A i \in 1..Len(gameSessions) :
    gameSessions[i].rank # Null =>
      /\ 1 <= gameSessions[i].rank
      /\ gameSessions[i].rank <= Len(gameSessions)

\* The stakes of the sessions, in order
StakesOf(sessions) ==
  [i \in 1..Len(sessions) |->
     [playerId |-> sessions[i].playerId, buyIns |-> sessions[i].buyIns,
      rebuys |-> sessions[i].rebuys, addOns |-> sessions[i].addOns]]

\* C37: a step of handleElimination or of setRank leaves the buyIns, rebuys
\* and addOns of every session, the phase and the tables as they were, and a
\* step of handleElimination leaves the rank of every session other than its
\* target as it was.
C37_RankingFrame ==
  [][ \A id \in 1..MaxPlayers :
        /\ (handleElimination(id) \/ \E rank \in 1..3 : setRank(id, rank)) =>
              /\ StakesOf(gameSessions') = StakesOf(gameSessions)
              /\ gamePhase' = gamePhase
              /\ tables' = tables
        /\ handleElimination(id) =>
              \A i \in 1..Len(gameSessions) :
                gameSessions[i].playerId # id =>
                  gameSessions'[i].rank = gameSessions[i].rank ]_vars

\* Two sessions ranked 2 and 1 after rebuys and an add-on, the phase advanced
C37_Witness ==
  /\ HasRound
  /\ gamePhase = "FREEZEOUT"
  /\ Len(tables) > 0
  /\ \E i, j \in 1..Len(gameSessions) :
       /\ gameSessions[i].rank = 1
       /\ gameSessions[j].rank = 2
       /\ gameSessions[i].rebuys > 0
       /\ gameSessions[j].addOns = 1

\* C38 as stated: eliminate applied to a session that holds a rank leaves
\* every rank as it was.  Stated of the handler: no run of its body for a
\* ranked session changes the sessions.
C38_HandlerKeepsRanked ==
  \A id \in 1..MaxPlayers :
    eliminarDisabled(id) =>
      ~ENABLED (handleEliminationHandler(id) /\ gameSessions' # gameSessions)

\* C38 (amended): the Eliminar button of a session that holds a rank is
\* disabled, so no elimination is applied to it, and no elimination of any
\* other session changes its rank: a ranked session is never re-ranked by
\* an elimination.
C38_RankedNotEliminated ==
  \A i \in 1..Len(gameSessions) :
    gameSessions[i].rank # Null =>
      /\ ~ENABLED handleElimination(gameSessions[i].playerId)
      /\ ~ENABLED (\E id \in 1..MaxPlayers :
                     /\ handleElimination(id)
                     /\ gameSessions'[i].rank # gameSessions[i].rank)

\* A ranked session whose handler body would re-rank it, beside a session
\* that can still be eliminated
C38_Witness ==
  /\ activeTab = "game"
  /\ \E i, j \in 1..Len(gameSessions) :
       /\ gameSessions[i].rank # Null
       /\ gameSessions[j].rank = Null
       /\ ENABLED (handleEliminationHandler(gameSessions[i].playerId) /\ gameSessions' # gameSessions)
       /\ ENABLED (handleElimination(gameSessions[j].playerId) /\ gameSessions' # gameSessions)

(***************************************************************************)
(* Starting a round (SpecStart)                                            *)
(***************************************************************************)
Fresh(s) == s.buyIns = 1 /\ s.rebuys = 0 /\ s.addOns = 0 /\ s.rank = Null

\* C16: the step that starts a round leaves exactly one session per checked-in
\* player and none for anyone else, every session fresh (1 buy-in, 0 rebuys,
\* 0 add-ons, no rank), the phase REBUYS_OPEN, and the ids seated at the
\* tables are the ids of the sessions.
C16_StartRound ==
  [][ (~HasRound /\ HasRound') =>
        /\ Len(gameSessions') = Cardinality(checkedInIds)
        /\ SessionIds(gameSessions') = checkedInIds
        /\ \A i \in 1..Len(gameSessions') : Fresh(gameSessions'[i])
        /\ gamePhase' = "REBUYS_OPEN"
        /\ SeatedIds(tables') = SessionIds(gameSessions')
    ]_vars

\* A round just started while a registered player was not checked in
C16_Witness ==
  /\ HasRound
  /\ Cardinality(checkedInIds) < Len(players)
  /\ Len(tables) > 1
  /\ \A i \in 1..Len(gameSessions) : Fresh(gameSessions[i])

Called(op) == result # <<>> /\ args.op = op

Known(playerId, sessions) == \E i \in 1..Len(sessions) : sessions[i].playerId = playerId

Adjusted(s, field, delta) ==
  IF field = "rebuys"
  THEN [playerId |-> s.playerId, buyIns |-> s.buyIns, addOns |-> s.addOns, rank |-> s.rank,
        rebuys |-> IF s.rebuys + delta < 0 THEN 0 ELSE s.rebuys + delta]
  ELSE [playerId |-> s.playerId, buyIns |-> s.buyIns, rebuys |-> s.rebuys, rank |-> s.rank,
        addOns |-> IF s.addOns + delta < 0 THEN 0
                   ELSE IF s.addOns + delta > 1 THEN 1 ELSE s.addOns + delta]

\* C19: updateSession on a player who has a session sets rebuys to
\* max(0, old + delta) or addOns to min(1, max(0, old + delta)), for every
\* delta, and changes no other field and no other session.
C19_AdjustClamped ==
  (Called("updateSession") /\ Known(args.playerId, args.sessions)) =>
    /\ Len(R) = Len(args.sessions)
    /\ \A i \in 1..Len(R) :
         R[i] = IF args.sessions[i].playerId = args.playerId
                THEN Adjusted(args.sessions[i], args.field, args.delta)
                ELSE args.sessions[i]

\* An add-on count of 1 raised by 2 (stays 1) next to a session left alone
C19_Witness ==
  /\ Called("updateSession")
  /\ args.field = "addOns"
  /\ args.delta = 2
  /\ \E i \in 1..Len(R) :
       args.sessions[i].playerId = args.playerId /\ args.sessions[i].addOns = 1 /\ R[i].addOns = 1
  /\ \E i \in 1..Len(R) : args.sessions[i].playerId # args.playerId

\* C20: a ledger handler called with a player id that has no session returns
\* the sessions unchanged.
C20_UnknownNoOp ==
  (result # <<>> /\ ~Known(args.playerId, args.sessions)) => R = args.sessions

(***************************************************************************)
(* Eliminations only (SpecElim)                                            *)
(***************************************************************************)
RankedCount(sessions) == Cardinality({ i \in 1..Len(sessions) : sessions[i].rank # Null })

\* C21: in a freshly started round of N players that only sees eliminations,
\* the k-th player eliminated receives rank N - k + 1 and nothing else
\* changes, so that the ranks go N, N - 1, ..., 1, each once, the last player
\* eliminated holds rank 1, and once all N are ranked an elimination of any
\* player changes nothing.
C21_RanksDescend ==
  [][ (HasRound /\ HasRound') =>
        /\ \E i \in 1..Len(gameSessions) :
             /\ gameSessions[i].rank = Null
             /\ gameSessions' = [gameSessions EXCEPT
                                   ![i].rank = Len(gameSessions) - RankedCount(gameSessions)]
        /\ RankedCount(gameSessions') = Len(gameSessions') =>
             /\ \E i \in 1..Len(gameSessions) :
                  gameSessions[i].rank = Null /\ gameSessions'[i].rank = 1
             /\ \A id \in 0..(MaxRoster + 1) :
                  eliminateIn(gameSessions', id, activePlayerCount') = gameSessions'
    ]_vars

\* A round of at least 3 players, all eliminated, next to a registered
\* player who did not take part
C21_Witness ==
  /\ Len(gameSessions) >= 3
  /\ RankedCount(gameSessions) = Len(gameSessions)
  /\ Len(players) > Len(gameSessions)

(***************************************************************************)
(* The season history (SpecSeason)                                         *)
(***************************************************************************)
\* C25: the history only grows at its end: a step either leaves it as it is
\* or is the saving of a round, which appends exactly one record; the records
\* it held stay as they were under every operation, those of later rounds
\* included, and a reset adds no record.
C25_AppendOnly ==
  [][ /\ \/ roundHistory' = roundHistory
         \/ /\ saveAndFinishRound
            /\ Len(roundHistory') = Len(roundHistory) + 1
            /\ SubSeq(roundHistory', 1, Len(roundHistory)) = roundHistory
      /\ resetRound => roundHistory' = roundHistory
    ]_vars

\* A later round, with a rank given and a ledger other than the saved one,
\* while the history holds the record of the first round
C25_Witness ==
  /\ Len(roundHistory) = 1
  /\ HasRound
  /\ gamePhase = "FREEZEOUT"
  /\ gameSessions # roundHistory[1].sessions
  /\ \E i \in 1..Len(gameSessions) : gameSessions[i].rank # Null

(***************************************************************************)
(* The phases of a round (SpecRound)                                       *)
(***************************************************************************)
\* C29: within a round a session's rebuys change only while the phase is
\* REBUYS_OPEN and its addOns only while the phase is ADDONS_OPEN, and its
\* buyIns never; once the phase is FREEZEOUT no session's buyIns, rebuys or
\* addOns changes, and the gross total and the three prizes of the settlement
\* stay the same, until the round is reset or finished.
C29_PhaseGated ==
  [][ (HasRound /\ HasRound') =>
        /\ Len(gameSessions') = Len(gameSessions)
        /\ \A i \in 1..Len(gameSessions) :
             /\ gameSessions'[i].buyIns = gameSessions[i].buyIns
             /\ gameSessions'[i].rebuys # gameSessions[i].rebuys => gamePhase = "REBUYS_OPEN"
             /\ gameSessions'[i].addOns # gameSessions[i].addOns => gamePhase = "ADDONS_OPEN"
        /\ gamePhase = "FREEZEOUT" =>
             /\ gamePhase' = "FREEZEOUT"
             /\ \A i \in 1..Len(gameSessions) :
                  /\ gameSessions'[i].rebuys = gameSessions[i].rebuys
                  /\ gameSessions'[i].addOns = gameSessions[i].addOns
             /\ (gameSessions' # gameSessions \/ config' # config) =>
                  LET before == calculateFinancials(gameSessions, config)
                      after  == calculateFinancials(gameSessions', config')
                  IN  /\ after.grossTotal = before.grossTotal
                      /\ after.prizes = before.prizes
    ]_vars

\* A frozen round with a rebuy, an add-on and a rank given
C29_Witness ==
  /\ HasRound
  /\ gamePhase = "FREEZEOUT"
  /\ activeTab = "game"
  /\ \E i \in 1..Len(gameSessions) : gameSessions[i].rebuys > 0
  /\ \E i \in 1..Len(gameSessions) : gameSessions[i].addOns = 1
  /\ \A i \in 1..Len(gameSessions) : gameSessions[i].rank # Null

\* The exact sum of the first i amounts of a list
RECURSIVE DySum(_, _)
DySum(xs, i) == IF i = 0 THEN Zero ELSE DyAdd(DySum(xs, i - 1), xs[i])

PrizesReceived(f) == [i \in 1..Len(f.playerBalances) |-> f.playerBalances[i].prizeReceived]

\* C34: in every state of a round each of the three prizes is credited to at
\* most one session (at most one balance belongs to a session of rank 1, one
\* to rank 2, one to rank 3, and no other balance receives anything), so the
\* prizes received sum to no more than prizes.first + second + third.
C34_PrizesCreditedOnce ==
  HasRound =>
    LET f == calculateFinancials(gameSessions, config)
    IN  /\ \A k \in 1..3 :
             Cardinality({ i \in 1..Len(gameSessions) : gameSessions[i].rank = k }) <= 1
        /\ \A i \in 1..Len(gameSessions) :
             gameSessions[i].rank \notin 1..3 => IsZero(f.playerBalances[i].prizeReceived)
        /\ DyLe(DySum(PrizesReceived(f), Len(gameSessions)), DySum(PrizeList(f), 3))

\* Two prizes are paid, to two sessions, after rebuys
C34_Witness ==
  /\ HasRound
  /\ \E i, j \in 1..Len(gameSessions) :
       /\ gameSessions[i].rank = 1
       /\ gameSessions[j].rank = 2
       /\ gameSessions[i].rebuys > 0
  /\ LET f == calculateFinancials(gameSessions, config)
     IN  DyEq(DySum(PrizesReceived(f), Len(gameSessions)),
              DyAdd(f.prizes.first, f.prizes.second))

(***************************************************************************)
(* The shuffle (SpecShuffle)                                               *)
(***************************************************************************)
RECURSIVE Factorial(_)
Factorial(n) == IF n <= 1 THEN 1 ELSE n * Factorial(n - 1)

C33_AdminTaxNonNegative ==
  Done => DyLe(Zero, R.adminTax)

NetBalances(f) == [i \in 1..Len(f.playerBalances) |-> f.playerBalances[i].netBalance]

\* Each of the ranks 1, 2, 3 is held by exactly one session of the list
PrizesAllPaid(sessions) ==
  \A k \in 1..3 : Cardinality({ i \in 1..Len(sessions) : sessions[i].rank = k }) = 1

\* C35: with at least one session and each of the ranks 1, 2, 3 held by exactly
\* one session, the net balances, adminTax, mainEventPot and bbqCost sum to 0:
\* the sum of the returned amounts, taken without rounding.
C35_MoneyConserved ==
  (Done /\ Len(args.sessions) >= 1 /\ PrizesAllPaid(args.sessions)) =>
    IsZero(DyAdd(DyAdd(DyAdd(DySum(NetBalances(R), Len(args.sessions)), R.adminTax),
                       R.mainEventPot),
                 args.config.bbqCost))

\* C40: for stakes and costs that are not negative the rounded prizes are
\* ordered: prizes.first >= prizes.second >= prizes.third >= 0.
C40_PrizesOrdered ==
  Done =>
    /\ DyLe(Zero, R.prizes.third)
    /\ DyLe(R.prizes.third, R.prizes.second)
    /\ DyLe(R.prizes.second, R.prizes.first)

\* The rounding makes the second and the third prize equal, below the first
C40_Witness ==
  /\ Done
  /\ ~IsZero(R.prizes.third)
  /\ DyEq(R.prizes.third, R.prizes.second)
  /\ DyLt(R.prizes.second, R.prizes.first)

(***************************************************************************)
(* The order of the points (SpecPts)                                       *)
(***************************************************************************)
\* C39: for n >= 1 and positions 1 <= p < q, calculatePoints(n, p) is strictly
\* greater than calculatePoints(n, q), for q beyond n as well.
C39_BetterScoresMore ==
  (Done /\ args.n >= 1 /\ args.p >= 1) =>
    \A q \in (args.p + 1)..MaxN : DyLt(calculatePoints(args.n, q), R)

\* The last place of a round of 10, above a position the round does not have,
\* and below the place before it by less than 2
C39_Witness ==
  /\ Done
  /\ args.n = 10
  /\ args.p = 10
  /\ DyLt(calculatePoints(10, 11), R)
  /\ DyLt(calculatePoints(10, 9), DyAdd(R, FromInt(2)))

====
